---- MODULE Spec2Model ----
(***************************************************************************)
(* The photo ingestion pipeline of ccc-photos: scripts/build-photos.js     *)
(* (the upload variant, src/unnamed/part_002) and                          *)
(* scripts/build-photos-local.js (the local variant).                      *)
(*                                                                         *)
(* A run loads the manifest, scans the source tree, calls processPhoto on  *)
(* every scanned file, prunes orphans (upload variant only), merges the    *)
(* returned records by originalName, re-clusters with groupPhotos and      *)
(* writes the manifest with fs.writeFile.                                  *)
(*                                                                         *)
(* Coordinates are integers in units of 0.001 degree.  Optional values     *)
(* (null in the code) are sequences: <<>> is null, <<v>> is the value v.   *)
(***************************************************************************)
EXTENDS Integers, Sequences, FiniteSets, TLC

(***************************************************************************)
(* Bounds of the exploration.                                              *)
(***************************************************************************)
MaxRuns == 3
MaxEdits == 2
MaxItems == 3

(***************************************************************************)
(* Program constants.                                                      *)
(***************************************************************************)
PROCESSING_VERSION == 2
radiusMilliMiles == 500
EarthRadiusMiles == 3959

Null == <<>>
Some(v) == <<v>>

\* JavaScript truthiness of an optional number: null and 0 are falsy.
Truthy(o) == o # Null /\ o[1] # 0

\* a || null on an optional number: a falsy value becomes null.
OrNull(o) == IF Truthy(o) THEN o ELSE Null

(***************************************************************************)
(* The source tree.  A path holds a content or is absent; a content stands *)
(* for the bytes of a file and fixes what reading, EXIF parsing and        *)
(* transcoding those bytes yield.                                          *)
(***************************************************************************)
ScanOrder == <<"d1/a.jpg", "d2/a.jpg", "b.jpg">>
Paths == {ScanOrder[i] : i \in 1..Len(ScanOrder)}

\* path.basename: the part after the last "/".
basename(p) ==
    CASE p = "d1/a.jpg" -> "a.jpg"
      [] p = "d2/a.jpg" -> "a.jpg"
      [] OTHER -> p

\* path.extname(fileName).toLowerCase()
extname(name) ==
    IF name \in {"a.mov", "b.mov", "c.mov", "d.mov"} THEN ".mov" ELSE ".jpg"

isVideo(name) == extname(name) \in {".mov", ".mp4", ".avi"}

Absent == "absent"
Contents == {"x", "y", "w", "u"}

\* The contents the clustering is tried on: besides x, y and w, three more
\* geotagged images and one without GPS data.
ClusterContents == {"x", "y", "f", "o", "z", "n", "w"}

\* fs.readFile(photoPath) throws for content "u" (unreadable file).
Unreadable(c) == c = "u"

\* sharp cannot decode content "w": optimizeImage throws.
Corrupt(c) == c = "w"

\* The store refuses content "w" (uploadToCloudflare, fs.copyFile throw).
PutFails(c) == c = "w"

\* crypto md5 of the bytes: equal bytes give equal digests, and the
\* contents of the model have pairwise different digests.
generateFileHash(c) == c

\* A point in time held as a JavaScript Date object, as exifr revives
\* DateTimeOriginal and CreateDate, and held as its ISO-8601 string, as
\* Date.prototype.toJSON writes it.
DateObject(t) == [type |-> "Date", time |-> t]
DateString(t) == [type |-> "string", time |-> t]

\* new Date(timestamp).getTime(), for a Date and for its ISO string.
timeOf(timestamp) == timestamp[1].time

\* What exifr.parse yields for the bytes: latitude, longitude and
\* DateTimeOriginal || CreateDate, each possibly missing.
ExifOf(c) ==
    CASE c = "x" -> [latitude |-> Some(10000), longitude |-> Some(10000), time |-> Some(DateObject(2))]
      [] c = "y" -> [latitude |-> Some(10000), longitude |-> Some(10005), time |-> Some(DateObject(1))]
      [] c = "f" -> [latitude |-> Some(10000), longitude |-> Some(10010), time |-> Null]
      [] c = "o" -> [latitude |-> Some(0), longitude |-> Some(0), time |-> Some(DateObject(1))]
      [] c = "z" -> [latitude |-> Some(0), longitude |-> Some(1), time |-> Some(DateObject(2))]
      [] OTHER -> [latitude |-> Null, longitude |-> Null, time |-> Null]

\* extractGPSData: null unless latitude and longitude are both truthy.
extractGPSData(exif) ==
    IF Truthy(exif.latitude) /\ Truthy(exif.longitude)
    THEN Some([latitude |-> exif.latitude, longitude |-> exif.longitude,
               timestamp |-> exif.time])
    ELSE Null

(***************************************************************************)
(* Sequence helpers: Array.prototype.find / findIndex return the first     *)
(* element (index) that satisfies the test; 0 stands for "not found".  The *)
(* test is given as the set of the elements that satisfy it.               *)
(***************************************************************************)
Elements(s) == {s[i] : i \in 1..Len(s)}

findIndex(s, passing) ==
    IF \E i \in 1..Len(s) : s[i] \in passing
    THEN CHOOSE i \in 1..Len(s) : s[i] \in passing /\ \A j \in 1..(i - 1) : s[j] \notin passing
    ELSE 0

Names(photos) == {photos[i].originalName : i \in 1..Len(photos)}

(***************************************************************************)
(* processPhoto.  The result says how the call ended: "existing" (the      *)
(* record found by file name is returned), "duplicate" (the record found   *)
(* by content hash is returned), "created" (a new record, processed or     *)
(* carrying the error caught by the guarded section) or "threw" (the read  *)
(* of the bytes for the hash failed outside the guarded section).          *)
(***************************************************************************)
NewRecord(fileName, id, hash, version) ==
    [originalName |-> fileName, id |-> id, processed |-> FALSE, error |-> Null,
     fileHash |-> hash, processingVersion |-> version,
     url |-> Null, type |-> "unset", lat |-> Null, lng |-> Null, timestamp |-> Null]

\* The guarded section (try ... catch) of processPhoto: store is "r2"
\* (uploadToCloudflare) or "local" (copyFile / optimizeImage to outputDir).
GuardedSection(photoData, content, store) ==
    LET fileName == photoData.originalName
        gpsData == extractGPSData(ExifOf(content))
    IN  IF isVideo(fileName)
        THEN IF PutFails(content)
             THEN [photoData EXCEPT !.error = Some("upload failed")]
             ELSE [photoData EXCEPT !.url = Some(<<store, fileName>>),
                                    !.type = "video",
                                    !.lat = Null, !.lng = Null, !.timestamp = Null,
                                    !.processed = TRUE]
        ELSE IF Corrupt(content)
             THEN [photoData EXCEPT !.error = Some("unsupported image format")]
             ELSE IF PutFails(content)
                  THEN [photoData EXCEPT !.error = Some("upload failed")]
                  ELSE [photoData EXCEPT
                          !.url = Some(<<store, fileName>>),
                          !.type = "image",
                          !.lat = IF gpsData = Null THEN Null ELSE OrNull(gpsData[1].latitude),
                          !.lng = IF gpsData = Null THEN Null ELSE OrNull(gpsData[1].longitude),
                          !.timestamp = IF gpsData = Null THEN Null ELSE gpsData[1].timestamp,
                          !.processed = TRUE]

\* A processPhoto that returns the record found by name, or by hash, only
\* where that record is processed, and so tries a failed item again.
processPhotoRetrying(photos, photoPath, content, id) ==
    LET fileName == basename(photoPath)
        ex == findIndex(photos, {p \in Elements(photos) : p.originalName = fileName})
        fileHash == generateFileHash(content)
        dup == findIndex(photos, {p \in Elements(photos) :
                                     p.fileHash = Some(fileHash) /\ p.processed})
    IN  IF ex # 0 /\ photos[ex].processingVersion >= PROCESSING_VERSION /\ photos[ex].processed
        THEN [how |-> "existing", record |-> photos[ex]]
        ELSE IF Unreadable(content)
        THEN [how |-> "threw", record |-> NewRecord(fileName, id, Null, 0)]
        ELSE IF dup # 0
        THEN [how |-> "duplicate", record |-> photos[dup]]
        ELSE [how |-> "created",
              record |-> GuardedSection(
                  NewRecord(fileName, id, Some(fileHash), PROCESSING_VERSION),
                  content, "r2")]

\* build-photos.js (upload variant), processPhoto.
processPhotoUpload(photos, photoPath, content, id) ==
    LET fileName == basename(photoPath)
        ex == findIndex(photos, {p \in Elements(photos) : p.originalName = fileName})
        current == ex # 0 /\ photos[ex].processingVersion >= PROCESSING_VERSION
        fileHash == generateFileHash(content)
        dupAllowed == ex = 0 \/ photos[ex].processingVersion >= PROCESSING_VERSION
        dup == findIndex(photos, {p \in Elements(photos) :
                                     p.fileHash = Some(fileHash) /\ dupAllowed})
    IN  IF current
        THEN [how |-> "existing", record |-> photos[ex]]
        ELSE IF Unreadable(content)
        THEN [how |-> "threw", record |-> NewRecord(fileName, id, Null, 0)]
        ELSE IF dup # 0 /\ dupAllowed
        THEN [how |-> "duplicate", record |-> photos[dup]]
        ELSE [how |-> "created",
              record |-> GuardedSection(
                  NewRecord(fileName, id, Some(fileHash), PROCESSING_VERSION),
                  content, "r2")]

\* build-photos-local.js (local variant), processPhoto: no processing
\* version is checked or written (0 stands for the missing field, for
\* which undefined >= 2 is false as 0 >= 2 is).
processPhotoLocal(photos, photoPath, content, id) ==
    LET fileName == basename(photoPath)
        ex == findIndex(photos, {p \in Elements(photos) : p.originalName = fileName})
        fileHash == generateFileHash(content)
        dup == findIndex(photos, {p \in Elements(photos) : p.fileHash = Some(fileHash)})
    IN  IF ex # 0
        THEN [how |-> "existing", record |-> photos[ex]]
        ELSE IF Unreadable(content)
        THEN [how |-> "threw", record |-> NewRecord(fileName, id, Null, 0)]
        ELSE IF dup # 0
        THEN [how |-> "duplicate", record |-> photos[dup]]
        ELSE [how |-> "created",
              record |-> GuardedSection(NewRecord(fileName, id, Some(fileHash), 0),
                                        content, "local")]

processPhoto(variant, photos, photoPath, content, id) ==
    IF variant = "upload"
    THEN processPhotoUpload(photos, photoPath, content, id)
    ELSE processPhotoLocal(photos, photoPath, content, id)

(***************************************************************************)
(* calculateDistance: the haversine distance, in thousandths of a mile,    *)
(* between two points given in units of 0.001 degree.  Integer arithmetic  *)
(* stands for the floating-point code: the cosine is its Taylor polynomial *)
(* to the fourth order and, the central angle being small wherever the     *)
(* result is compared with the radius, sin t and atan t are taken as t.    *)
(***************************************************************************)
RECURSIVE SqrtSearch(_, _, _)
SqrtSearch(n, lo, hi) ==
    IF lo >= hi THEN lo
    ELSE LET mid == (lo + hi + 1) \div 2
         IN  IF mid * mid <= n THEN SqrtSearch(n, mid, hi) ELSE SqrtSearch(n, lo, mid - 1)

ISqrt(n) == SqrtSearch(n, 0, 46340)

\* 1000 * cos(lat), lat in units of 0.001 degree.
CosMilli(lat) ==
    LET d == lat \div 100
        x2 == (d * d * 305) \div 100
    IN  1000 - (x2 \div 2000) + (((x2 \div 1000) * (x2 \div 1000)) \div 24000)

\* Millionths of a mile per 0.001 degree of arc: R * pi / 180000.
MicroMilesPerUnit == (EarthRadiusMiles * 31416) \div 1800

calculateDistance(lat1, lng1, lat2, lng2) ==
    LET dLat == lat2 - lat1
        dLng == lng2 - lng1
        cc == (CosMilli(lat1) * CosMilli(lat2)) \div 1000
        a == dLat * dLat + ((dLng * dLng) \div 1000) * cc
              + (((dLng * dLng) % 1000) * cc) \div 1000
        c10 == IF a <= 10000000 THEN ISqrt(100 * a) ELSE 10 * ISqrt(a)
    IN  (c10 * (MicroMilesPerUnit \div 10)) \div 1000

(***************************************************************************)
(* groupPhotos.                                                            *)
(***************************************************************************)
\* photos.filter(p => p.lat && p.lng && p.processed && !p.error)
Locatable(p) == Truthy(p.lat) /\ Truthy(p.lng) /\ p.processed /\ p.error = Null

photosByLocation(photos) == SelectSeq(photos, Locatable)

\* The comparator of group.sort: negative, zero or positive.
compareByTimestamp(a, b) ==
    IF a.timestamp = Null /\ b.timestamp = Null THEN 0
    ELSE IF a.timestamp = Null THEN 1
    ELSE IF b.timestamp = Null THEN 0 - 1
    ELSE timeOf(a.timestamp) - timeOf(b.timestamp)

\* Array.prototype.sort is stable: an element is placed after every
\* element that does not compare greater than it.
RECURSIVE InsertSorted(_, _)
InsertSorted(sorted, x) ==
    IF sorted = <<>> THEN <<x>>
    ELSE IF compareByTimestamp(sorted[Len(sorted)], x) > 0
         THEN Append(InsertSorted(SubSeq(sorted, 1, Len(sorted) - 1), x), sorted[Len(sorted)])
         ELSE Append(sorted, x)

RECURSIVE sortGroup(_)
sortGroup(group) ==
    IF group = <<>> THEN <<>>
    ELSE InsertSorted(sortGroup(SubSeq(group, 1, Len(group) - 1)), group[Len(group)])

RECURSIVE SumOf(_, _)
SumOf(group, field) ==
    IF group = <<>> THEN 0
    ELSE (IF field = "lat" THEN group[1].lat[1] ELSE group[1].lng[1])
         + SumOf(Tail(group), field)

\* The centre of a group in units of 0.000001 degree.
center(group, field) == (SumOf(group, field) * 1000) \div Len(group)

\* Joiners without the test "if (used.has(j)) continue".
JoinersIgnoringUsed(pl, i, used) ==
    {j \in (i + 1)..Len(pl) :
        calculateDistance(pl[i].lat[1], pl[i].lng[1], pl[j].lat[1], pl[j].lng[1])
           <= radiusMilliMiles}

\* Joiners measuring the distance to the seed or to a member in between.
JoinersNearAnyMember(pl, i, used) ==
    {j \in (i + 1)..Len(pl) :
        /\ j \notin used
        /\ \E k \in i..(j - 1) :
             /\ k \notin used
             /\ calculateDistance(pl[i].lat[1], pl[i].lng[1], pl[k].lat[1], pl[k].lng[1])
                  <= radiusMilliMiles
             /\ calculateDistance(pl[k].lat[1], pl[k].lng[1], pl[j].lat[1], pl[j].lng[1])
                  <= radiusMilliMiles}

\* The indices j > i, not yet used, within the radius of the seed i.
Joiners(pl, i, used) ==
    {j \in (i + 1)..Len(pl) :
        /\ j \notin used
        /\ calculateDistance(pl[i].lat[1], pl[i].lng[1], pl[j].lat[1], pl[j].lng[1])
             <= radiusMilliMiles}

RECURSIVE InOrder(_, _, _)
InOrder(pl, js, j) ==
    IF j > Len(pl) THEN <<>>
    ELSE (IF j \in js THEN <<pl[j]>> ELSE <<>>) \o InOrder(pl, js, j + 1)

(***************************************************************************)
(* getLocationName.  A response of the geocoding service is a record:      *)
(* net says whether fetch resolved, ok is response.ok, jsonType whether    *)
(* the content-type header names application/json, and body is what the    *)
(* body holds: text that is not JSON ("html"), the JSON value null, or a   *)
(* JSON object ("data") with display_name, given as its comma-separated    *)
(* segments (<<>> for a missing or empty string), and the address fields,  *)
(* each "" when missing or empty.  A name is the sequence of the segments  *)
(* the code joins with ", ".                                               *)
(***************************************************************************)
NoAddress ==
    [road |-> "", neighbourhood |-> "", suburb |-> "", city |-> "", town |-> "", state |-> ""]

Addresses ==
    [road : {"", "R"}, neighbourhood : {"", "N"}, suburb : {"", "S"},
     city : {"", "C"}, town : {"", "T"}, state : {"", "ST"}]

DisplayNames == {<<>>, <<"D1">>, <<"D1", "D2">>, <<"D1", "D2", "D3">>}

Bodies ==
    {[kind |-> k, display_name |-> <<>>, address |-> NoAddress] : k \in {"html", "null"}}
    \cup [kind : {"data"}, display_name : DisplayNames, address : Addresses]

NetworkError ==
    [net |-> "error", ok |-> FALSE, jsonType |-> FALSE,
     body |-> [kind |-> "html", display_name |-> <<>>, address |-> NoAddress]]

AllResponses ==
    {NetworkError} \cup [net : {"ok"}, ok : BOOLEAN, jsonType : BOOLEAN, body : Bodies]

\* a || b on strings: the empty string is falsy.
OrElse(a, b) == IF a # "" THEN a ELSE b

\* Number.prototype.toFixed(4) of a coordinate given in units of 0.000001
\* degree: the nearest multiple of 0.0001, in units of 0.0001 degree.
toFixed4(micro) == (micro + 50) \div 100

\* `${lat.toFixed(4)}, ${lng.toFixed(4)}`
CoordinateString(lat, lng) ==
    [kind |-> "coords", parts |-> <<>>, lat |-> toFixed4(lat), lng |-> toFixed4(lng)]

PlaceName(parts) == [kind |-> "name", parts |-> parts, lat |-> 0, lng |-> 0]

\* The block "if (data && data.display_name) { ... }": withState says
\* whether the variant has the branch "else if (city && state)".
nameFromData(data, lat, lng, withState) ==
    IF data.kind = "data" /\ data.display_name # <<>>
    THEN IF Len(data.display_name) >= 2
         THEN LET road == data.address.road
                  neighborhood == OrElse(data.address.neighbourhood, data.address.suburb)
                  city == OrElse(data.address.city, data.address.town)
                  state == data.address.state
              IN  IF neighborhood # "" /\ city # "" THEN PlaceName(<<neighborhood, city>>)
                  ELSE IF road # "" /\ city # "" THEN PlaceName(<<road, city>>)
                  ELSE IF withState /\ city # "" /\ state # "" THEN PlaceName(<<city, state>>)
                  ELSE IF city # "" THEN PlaceName(<<city>>)
                  ELSE PlaceName(SubSeq(data.display_name, 1, 2))
         ELSE PlaceName(data.display_name)
    ELSE CoordinateString(lat, lng)

\* build-photos.js: response.ok and the content type are checked before
\* the body is parsed; whatever throws is caught.
getLocationNameUpload(lat, lng, response) ==
    IF response.net = "error" THEN CoordinateString(lat, lng)
    ELSE IF ~response.ok THEN CoordinateString(lat, lng)
    ELSE IF ~response.jsonType THEN CoordinateString(lat, lng)
    ELSE IF response.body.kind = "html" THEN CoordinateString(lat, lng)
    ELSE nameFromData(response.body, lat, lng, TRUE)

\* build-photos-local.js: the body is parsed whatever the status is.
getLocationNameLocal(lat, lng, response) ==
    IF response.net = "error" THEN CoordinateString(lat, lng)
    ELSE IF response.body.kind = "html" THEN CoordinateString(lat, lng)
    ELSE nameFromData(response.body, lat, lng, FALSE)

getLocationName(v, lat, lng, response) ==
    IF v = "upload"
    THEN getLocationNameUpload(lat, lng, response)
    ELSE getLocationNameLocal(lat, lng, response)

\* The loop over the seeds.  v is the variant: build-photos.js sorts the
\* members, build-photos-local.js does not;
\* responses[k] is what the geocoding service answers to the k-th lookup,
\* firstId + k - 1 the identifier crypto.randomUUID gives the k-th group.
RECURSIVE groupLoop(_, _, _, _, _, _, _)
groupLoop(pl, i, used, groups, v, responses, firstId) ==
    IF i > Len(pl) THEN groups
    ELSE IF i \in used THEN groupLoop(pl, i + 1, used, groups, v, responses, firstId)
    ELSE LET js == Joiners(pl, i, used)
             raw == <<pl[i]>> \o InOrder(pl, js, i + 1)
             group == IF v = "upload" THEN sortGroup(raw) ELSE raw
             centerLat == center(group, "lat")
             centerLng == center(group, "lng")
             k == Len(groups) + 1
             g == [id |-> firstId + k - 1, lat |-> centerLat, lng |-> centerLng,
                   photos |-> group, count |-> Len(group),
                   locationName |-> getLocationName(v, centerLat, centerLng, responses[k])]
         IN  groupLoop(pl, i + 1, used \cup {i} \cup js, Append(groups, g),
                       v, responses, firstId)

groupPhotos(photos, v, responses, firstId) ==
    groupLoop(photosByLocation(photos), 1, {}, <<>>, v, responses, firstId)

\* The number of groups does not depend on the responses.
GroupCount(photos) ==
    Len(groupPhotos(photos, "local", [k \in 1..Len(photos) |-> NetworkError], 0))

(***************************************************************************)
(* The state.                                                              *)
(***************************************************************************)
VARIABLES
    tree,             \* the source tree: path -> content, or Absent
    file,             \* the manifest file on disk
    pc,               \* where the process is, or how the last one ended
    variant,          \* which script runs: "upload" or "local"
    manifest,         \* this.manifest
    photoFiles,       \* run(): the paths scanForPhotos returned
    processedPhotos,  \* run(): the records processPhoto returned so far
    outcomes,         \* how each of those calls ended (for the properties)
    runs,             \* processes started so far; also the clock
    edits,            \* changes made to the source tree so far
    sameTree,         \* the tree is as the last completed run scanned it
    completed,        \* the variants of the completed runs, in order
    lastError,        \* what the catch of run() logged before process.exit(1)
    lookups,          \* groupPhotos: where the loop is between two groups, the
                      \* requests in flight and the responses received so far
    savedVersions     \* the version each completed run left in the file, in order

vars == <<tree, file, pc, variant, manifest, photoFiles, processedPhotos, outcomes,
          runs, edits, sameTree, completed, lastError, lookups, savedVersions>>

\* crypto.randomUUID: a value no other call returns.  The k-th call of the
\* n-th process is numbered apart from every other call of every process.
randomUUID(n, k) == n * 4 * Len(ScanOrder) + k

\* No process is running: none has run since the tree was last edited
\* ("idle"), or the last one ended with status 0 ("exit0"), with status 1
\* ("exit1") or by a signal ("killed").
Stopped == {"idle", "exit0", "exit1", "killed"}

\* The values of manifest.version that are not numbers, numbered below every
\* number a version can be: undefined (the file read has no "version" key),
\* NaN and null.
undefined == 0 - 1
NaN == 0 - 2
null == 0 - 3

IsNumber(v) == v >= 0

\* "this.manifest.version + 1" as JavaScript computes it: undefined + 1 and
\* NaN + 1 are NaN, null + 1 is 1.
plusOne(version) ==
    IF IsNumber(version) THEN version + 1
    ELSE IF version = null THEN 1
    ELSE NaN

\* The manifest the constructor and the catch of loadExistingManifest build.
FreshManifest(now) == [photos |-> <<>>, groups |-> <<>>, lastUpdated |-> now, version |-> 1]

NoFile == [state |-> "absent", content |-> FreshManifest(0)]

\* groupPhotos has not begun: no timer runs, no request is in flight.
NoLookups == [phase |-> "idle", inFlight |-> 0, responses |-> <<>>]

\* A process that has ended holds nothing.
NoProcess ==
    /\ variant' = "upload"
    /\ manifest' = FreshManifest(0)
    /\ photoFiles' = <<>>
    /\ processedPhotos' = <<>>
    /\ outcomes' = <<>>
    /\ lookups' = NoLookups

Init ==
    /\ tree = [p \in Paths |-> Absent]
    /\ file = NoFile
    /\ pc = "idle"
    /\ variant = "upload"
    /\ manifest = FreshManifest(0)
    /\ photoFiles = <<>>
    /\ processedPhotos = <<>>
    /\ outcomes = <<>>
    /\ runs = 0
    /\ edits = 0
    /\ sameTree = FALSE
    /\ completed = <<>>
    /\ savedVersions = <<>>
    /\ lastError = "none"
    /\ lookups = NoLookups

\* The user adds, removes, replaces or moves a file between two runs.
EditTree ==
    /\ pc \in Stopped
    /\ edits < MaxEdits
    /\ \/ \E p \in Paths, c \in Contents \cup {Absent} :
            /\ tree[p] # c
            /\ tree' = [tree EXCEPT ![p] = c]
       \/ \E p, q \in Paths :
            /\ tree[p] # Absent /\ tree[q] = Absent
            /\ tree' = [tree EXCEPT ![p] = Absent, ![q] = tree[p]]
    /\ edits' = edits + 1
    /\ sameTree' = FALSE
    /\ pc' = "idle"
    /\ lastError' = "none"
    /\ UNCHANGED <<file, variant, manifest, photoFiles, processedPhotos, outcomes,
                   runs, completed, savedVersions, lookups>>

\* JSON.stringify of a record: a Date becomes its ISO string (toJSON);
\* null, numbers, strings and booleans are written as they are.
stringifyPhoto(p) ==
    IF p.timestamp # Null /\ p.timestamp[1].type = "Date"
    THEN [p EXCEPT !.timestamp = Some(DateString(p.timestamp[1].time))]
    ELSE p

\* JSON.stringify(this.manifest, null, 2): the text, given as the value
\* JSON.parse reads from it.  NaN is written as null.
JSONstringify(m) ==
    [m EXCEPT
        !.version = IF m.version = NaN THEN null ELSE m.version,
        !.photos = [i \in 1..Len(m.photos) |-> stringifyPhoto(m.photos[i])],
        !.groups = [g \in 1..Len(m.groups) |->
            [m.groups[g] EXCEPT !.photos =
                [k \in 1..Len(m.groups[g].photos) |-> stringifyPhoto(m.groups[g].photos[k])]]]]

\* JSON.parse(manifestContent): no reviver is given, so every value is
\* read as the text holds it and a date stays a string.
JSONparse(text) == text

\* node scripts/build-photos.js | build-photos-local.js: the constructor,
\* then run() up to and including loadExistingManifest.  A file that is
\* absent or does not parse yields the fresh manifest.
loadExistingManifest(v) ==
    /\ pc \in Stopped
    /\ runs < MaxRuns
    /\ runs' = runs + 1
    /\ variant' = v
    /\ manifest' = IF file.state = "complete"
                    THEN JSONparse(file.content)
                    ELSE FreshManifest(runs + 1)
    /\ photoFiles' = <<>>
    /\ processedPhotos' = <<>>
    /\ outcomes' = <<>>
    /\ pc' = "scan"
    /\ lastError' = "none"
    /\ lookups' = NoLookups
    /\ UNCHANGED <<tree, file, edits, sameTree, completed, savedVersions>>

\* The paths present, in the order scanDirectory visits them.
RECURSIVE Scanned(_, _)
Scanned(t, i) ==
    IF i > Len(ScanOrder) THEN <<>>
    ELSE (IF t[ScanOrder[i]] # Absent THEN <<ScanOrder[i]>> ELSE <<>>) \o Scanned(t, i + 1)

scanForPhotos ==
    /\ pc = "scan"
    /\ photoFiles' = Scanned(tree, 1)
    /\ pc' = "process"
    /\ UNCHANGED <<tree, file, variant, manifest, processedPhotos, outcomes,
                   runs, edits, sameTree, completed, savedVersions, lastError, lookups>>

\* A catch that logs the error and lets the process end with status 0.
FatalExitsZero(error) ==
    /\ pc' = "exit0"
    /\ lastError' = error
    /\ NoProcess

\* run()'s catch: console.error(error), process.exit(1).
Fatal(error) ==
    /\ pc' = "exit1"
    /\ lastError' = error
    /\ NoProcess

\* fs.readdir of the source directory throws.
scanThrows ==
    /\ pc = "scan"
    /\ Fatal("readdir")
    /\ UNCHANGED <<tree, file, runs, edits, sameTree, completed, savedVersions>>

\* One turn of the loop "for (const photoFile of photoFiles)".
processNext ==
    /\ pc = "process"
    /\ Len(processedPhotos) < Len(photoFiles)
    /\ LET photoPath == photoFiles[Len(processedPhotos) + 1]
           r == processPhoto(variant, manifest.photos, photoPath, tree[photoPath],
                             randomUUID(runs, Len(processedPhotos) + 1))
       IN  IF r.how = "threw"
           THEN Fatal("readFile")
           ELSE /\ processedPhotos' = Append(processedPhotos, r.record)
                /\ outcomes' = Append(outcomes, r.how)
                /\ UNCHANGED <<pc, variant, manifest, photoFiles, lastError, lookups>>
    /\ UNCHANGED <<tree, file, runs, edits, sameTree, completed, savedVersions>>

\* "Clean up photos that no longer exist": build-photos.js only.
pruneOrphans(photos, currentFileNames) ==
    SelectSeq(photos, LAMBDA photo : photo.originalName \in currentFileNames)

\* A merge that pushes every processed record.
mergeAppendOnly(photos, processed) == photos \o processed

\* A merge that removes the entry of the record's name and pushes the record.
RECURSIVE mergeMoveToEnd(_, _)
mergeMoveToEnd(photos, processed) ==
    IF processed = <<>> THEN photos
    ELSE mergeMoveToEnd(
             Append(SelectSeq(photos,
                              LAMBDA p : p.originalName # Head(processed).originalName),
                    Head(processed)),
             Tail(processed))

\* "Update manifest with new/updated photos".
RECURSIVE merge(_, _)
merge(photos, processed) ==
    IF processed = <<>> THEN photos
    ELSE LET processedPhoto == Head(processed)
             existingIndex ==
                 findIndex(photos, {p \in Elements(photos) :
                                       p.originalName = processedPhoto.originalName})
         IN  merge(IF existingIndex # 0
                   THEN [photos EXCEPT ![existingIndex] = processedPhoto]
                   ELSE Append(photos, processedPhoto),
                   Tail(processed))

FileNames(files) == {basename(files[i]) : i \in 1..Len(files)}

pruneAndMerge ==
    /\ pc = "process"
    /\ Len(processedPhotos) = Len(photoFiles)
    /\ manifest' = [manifest EXCEPT !.photos =
          merge(IF variant = "upload"
                THEN pruneOrphans(manifest.photos, FileNames(photoFiles))
                ELSE manifest.photos,
                processedPhotos)]
    /\ pc' = "group"
    /\ UNCHANGED <<tree, file, variant, photoFiles, processedPhotos, outcomes,
                   runs, edits, sameTree, completed, savedVersions, lastError, lookups>>

\* A response that names a place.
NamedResponse ==
    [net |-> "ok", ok |-> TRUE, jsonType |-> TRUE,
     body |-> [kind |-> "data", display_name |-> <<"D1", "D2">>,
               address |-> [NoAddress EXCEPT !.neighbourhood = "N", !.city = "C"]]]

\* The responses clustering is tried with: one that names a place and one
\* failure.
GeoResponses == {NamedResponse, NetworkError}

\* The response the runs of the whole pipeline get: the name of a group has
\* no part in what a later run does, every run clustering anew.
PipelineResponses == {NamedResponse}

\* groupPhotos up to "await new Promise(resolve => setTimeout(...))": the
\* next seed's group is formed and the timer is started.
startDelay ==
    /\ pc = "group"
    /\ lookups.phase = "idle"
    /\ Len(lookups.responses) < GroupCount(manifest.photos)
    /\ lookups' = [lookups EXCEPT !.phase = "delay"]
    /\ UNCHANGED <<tree, file, pc, variant, manifest, photoFiles, processedPhotos, outcomes,
                   runs, edits, sameTree, completed, savedVersions, lastError>>

\* A loop that calls getLocationName for the next group without awaiting
\* the timer or the request before.
issueLookupUnawaited ==
    /\ pc = "group"
    /\ Len(lookups.responses) + lookups.inFlight < GroupCount(manifest.photos)
    /\ lookups' = [lookups EXCEPT !.phase = "lookup", !.inFlight = lookups.inFlight + 1]
    /\ UNCHANGED <<tree, file, pc, variant, manifest, photoFiles, processedPhotos, outcomes,
                   runs, edits, sameTree, completed, savedVersions, lastError>>

\* The timer fires and getLocationName calls fetch.
issueLookup ==
    /\ pc = "group"
    /\ lookups.phase = "delay"
    /\ lookups' = [lookups EXCEPT !.phase = "lookup", !.inFlight = lookups.inFlight + 1]
    /\ UNCHANGED <<tree, file, pc, variant, manifest, photoFiles, processedPhotos, outcomes,
                   runs, edits, sameTree, completed, savedVersions, lastError>>

\* The request ends with a response of the set R; getLocationName returns
\* and the group is pushed.
lookupReturns(R) ==
    /\ pc = "group"
    /\ lookups.phase = "lookup"
    /\ \E response \in R :
         lookups' = [phase |-> "idle", inFlight |-> lookups.inFlight - 1,
                     responses |-> Append(lookups.responses, response)]
    /\ UNCHANGED <<tree, file, pc, variant, manifest, photoFiles, processedPhotos, outcomes,
                   runs, edits, sameTree, completed, savedVersions, lastError>>

\* The loop is over: this.manifest.groups = await this.groupPhotos(...)
clusterManifest ==
    /\ pc = "group"
    /\ lookups.phase = "idle"
    /\ Len(lookups.responses) = GroupCount(manifest.photos)
    /\ manifest' = [manifest EXCEPT !.groups =
          groupPhotos(manifest.photos, variant, lookups.responses,
                      randomUUID(runs, 2 * Len(ScanOrder) + 1))]
    /\ pc' = "save"
    /\ UNCHANGED <<tree, file, variant, photoFiles, processedPhotos, outcomes,
                   runs, edits, sameTree, completed, savedVersions, lastError, lookups>>

\* saveManifest up to the point where fs.writeFile has opened the file for
\* writing, which truncates it: until the write completes the file holds a
\* prefix of the new text.
saveManifestBegin ==
    /\ pc = "save"
    /\ manifest' = [manifest EXCEPT !.lastUpdated = runs, !.version = plusOne(manifest.version)]
    /\ file' = [state |-> "partial", content |-> FreshManifest(0)]
    /\ pc' = "writing"
    /\ UNCHANGED <<tree, variant, photoFiles, processedPhotos, outcomes,
                   runs, edits, sameTree, completed, savedVersions, lastError, lookups>>

\* fs.mkdir or the open of fs.writeFile throws: nothing is written.
saveThrows ==
    /\ pc = "save"
    /\ Fatal("writeFile")
    /\ UNCHANGED <<tree, file, runs, edits, sameTree, completed, savedVersions>>

\* fs.writeFile completes; run() returns and the process ends.
saveManifestEnd ==
    /\ pc = "writing"
    /\ file' = [state |-> "complete", content |-> JSONstringify(manifest)]
    /\ pc' = "exit0"
    /\ NoProcess
    /\ sameTree' = TRUE
    /\ completed' = Append(completed, variant)
    /\ savedVersions' = Append(savedVersions, JSONstringify(manifest).version)
    /\ UNCHANGED <<tree, runs, edits, lastError>>

\* The process is killed (a signal, a power cut) while it runs.
Interrupt ==
    /\ pc \in {"scan", "process", "group", "save", "writing"}
    /\ pc' = "killed"
    /\ NoProcess
    /\ UNCHANGED <<tree, file, runs, edits, sameTree, completed, savedVersions, lastError>>

\* The manifest of the guide's "Manual Update": photos, groups, lastUpdated,
\* totalPhotos, day and route, and no "version" key.  The lists are empty
\* here.
ManualManifest == [photos |-> <<>>, groups |-> <<>>, lastUpdated |-> 0, version |-> undefined]

\* The user writes the manifest file by hand between two runs.
ManualUpdate ==
    /\ pc \in Stopped
    /\ edits < MaxEdits
    /\ file # [state |-> "complete", content |-> ManualManifest]
    /\ file' = [state |-> "complete", content |-> ManualManifest]
    /\ edits' = edits + 1
    /\ sameTree' = FALSE
    /\ pc' = "idle"
    /\ lastError' = "none"
    /\ UNCHANGED <<tree, variant, manifest, photoFiles, processedPhotos, outcomes,
                   runs, completed, lookups, savedVersions>>

Next ==
    \/ EditTree
    \/ \E v \in {"upload", "local"} : loadExistingManifest(v)
    \/ scanForPhotos
    \/ scanThrows
    \/ processNext
    \/ pruneAndMerge
    \/ startDelay
    \/ issueLookup
    \/ lookupReturns(PipelineResponses)
    \/ clusterManifest
    \/ saveManifestBegin
    \/ saveThrows
    \/ saveManifestEnd
    \/ Interrupt

Spec == Init /\ [][Next]_vars

\* The pipeline where the manifest file is also written by hand.
NextManual ==
    \/ Next
    \/ ManualUpdate

SpecManual == Init /\ [][NextManual]_vars

(***************************************************************************)
(* Clustering alone: groupPhotos applied where a first run over a tree of  *)
(* up to MaxItems files of different names, started from an empty          *)
(* manifest, has processed and merged every file.                          *)
(***************************************************************************)
ItemNames == <<{"a.jpg", "a.mov"}, {"b.jpg", "b.mov"}, {"c.jpg", "c.mov"}, {"d.jpg", "d.mov"}>>

FirstRunRecords(v, names, contents) ==
    [i \in 1..Len(names) |->
        processPhoto(v, <<>>, names[i], contents[names[i]], randomUUID(1, i)).record]

InitCluster ==
    /\ file = NoFile
    /\ pc = "group"
    /\ variant \in {"upload", "local"}
    /\ runs = 1
    /\ edits = 0
    /\ sameTree = FALSE
    /\ completed = <<>>
    /\ savedVersions = <<>>
    /\ lastError = "none"
    /\ lookups = NoLookups
    /\ \E n \in 0..MaxItems :
         \E names \in [1..n -> UNION {ItemNames[i] : i \in 1..Len(ItemNames)}] :
           /\ \A i \in 1..n : names[i] \in ItemNames[i]
           /\ photoFiles = names
           /\ tree \in [{names[i] : i \in 1..n} -> ClusterContents]
    /\ processedPhotos = FirstRunRecords(variant, photoFiles, tree)
    /\ outcomes = [i \in 1..Len(photoFiles) |-> "created"]
    /\ manifest = [FreshManifest(1) EXCEPT !.photos = merge(<<>>, processedPhotos)]

NextCluster ==
    \/ startDelay
    \/ issueLookup
    \/ lookupReturns(GeoResponses)
    \/ clusterManifest

SpecCluster == InitCluster /\ [][NextCluster]_vars

(***************************************************************************)
(* getLocationName alone: groupPhotos applied to a catalog whose items     *)
(* form one group, the lookup answered by any response.                    *)
(***************************************************************************)
InitGeo ==
    /\ InitCluster
    /\ Len(photoFiles) >= 1
    /\ \A i \in 1..Len(photoFiles) :
         /\ ~isVideo(photoFiles[i])
         /\ tree[photoFiles[i]] \in {"x", "y"}

NextGeo ==
    \/ startDelay
    \/ issueLookup
    \/ lookupReturns(AllResponses)
    \/ clusterManifest

SpecGeo == InitGeo /\ [][NextGeo]_vars

(***************************************************************************)
(* Properties.                                                             *)
(***************************************************************************)
\* The photos the running process loaded: the file is not written before
\* saveManifest.
Loaded == IF file.state = "complete" THEN file.content.photos ELSE <<>>

\* The process has merged: this.manifest.photos is what it will save.
Merged == pc \in {"group", "save", "writing"}

UploadOnly == variant = "upload" /\ \A k \in 1..Len(completed) : completed[k] = "upload"

GroupMembers(groups) ==
    UNION {{groups[g].photos[k] : k \in 1..Len(groups[g].photos)} : g \in 1..Len(groups)}

HasEntry(photos, name) == \E i \in 1..Len(photos) : photos[i].originalName = name

EntryOf(photos, name) ==
    photos[findIndex(photos, {p \in Elements(photos) : p.originalName = name})]

\* C1: in the upload pipeline, started from an empty catalog, the manifest
\* a run saves holds only entries named after a file of that run's scan,
\* and no group of it holds an item whose file the scan did not find.
C1_OnlyScannedFilesRemain ==
    (UploadOnly /\ pc = "writing") =>
        /\ \A i \in 1..Len(manifest.photos) :
             manifest.photos[i].originalName \in FileNames(photoFiles)
        /\ \A m \in GroupMembers(manifest.groups) :
             m.originalName \in FileNames(photoFiles)

\* C1 (the case): an upload run is about to save after pruning an entry
\* whose file is gone while a file with the same bytes remains.
C1_Witness ==
    /\ UploadOnly /\ pc = "writing"
    /\ \E i \in 1..Len(outcomes) :
         /\ outcomes[i] = "duplicate"
         /\ processedPhotos[i].originalName \notin FileNames(photoFiles)

\* Two scanned files, i before j, with the same bytes and different names.
SameBytes(i, j) ==
    /\ i < j
    /\ tree[photoFiles[i]] = tree[photoFiles[j]]
    /\ basename(photoFiles[i]) # basename(photoFiles[j])

FullyProcessed(i) == outcomes[i] = "created" /\ processedPhotos[i].processed

\* C2: of two scanned files with the same bytes and different names, a run
\* fully processes at most one.
C2_OneOfTwoDuplicatesProcessed ==
    pc = "process" =>
        \A i, j \in 1..Len(processedPhotos) :
            SameBytes(i, j) => ~(FullyProcessed(i) /\ FullyProcessed(j))

\* C2 (the case): the first of two such files is in the catalog from an
\* earlier run and the second is resolved to its record by the hash.
C2_Witness ==
    /\ pc = "process"
    /\ \E i, j \in 1..Len(processedPhotos) :
         /\ SameBytes(i, j)
         /\ outcomes[i] = "existing"
         /\ outcomes[j] = "duplicate"
         /\ processedPhotos[j] = processedPhotos[i]

\* The i-th scanned file is the only scanned file of its name, has an
\* entry of that name in the loaded catalog, and its bytes do not hash to
\* the entry's fileHash.
ChangedSinceLoaded(i) ==
    LET name == basename(photoFiles[i])
    IN  /\ \A k \in 1..Len(photoFiles) : basename(photoFiles[k]) = name => k = i
        /\ HasEntry(Loaded, name)
        /\ EntryOf(Loaded, name).fileHash # Some(generateFileHash(tree[photoFiles[i]]))

\* C3: a file whose bytes changed under the same name is processed again,
\* and the merged catalog holds, under its name, a record with the new hash.
C3_ChangedFileReprocessed ==
    /\ pc = "process" =>
         \A i \in 1..Len(processedPhotos) :
             ChangedSinceLoaded(i) => outcomes[i] = "created"
    /\ pc \in {"group", "save"} =>
         \A i \in 1..Len(photoFiles) :
             ChangedSinceLoaded(i) =>
                 /\ HasEntry(manifest.photos, basename(photoFiles[i]))
                 /\ EntryOf(manifest.photos, basename(photoFiles[i])).fileHash
                       = Some(generateFileHash(tree[photoFiles[i]]))

\* C3 (the case): a run has handled a file whose bytes changed since the
\* run that stored its entry.
C3_Witness ==
    /\ pc = "process"
    /\ \E i \in 1..Len(processedPhotos) : ChangedSinceLoaded(i)

\* The i-th scanned file has, in the loaded catalog, an entry of its name
\* whose processingVersion is missing or below the current one.
Outdated(i) ==
    /\ HasEntry(Loaded, basename(photoFiles[i]))
    /\ EntryOf(Loaded, basename(photoFiles[i])).processingVersion < PROCESSING_VERSION

\* C4: the upload run processes again every scanned file whose entry is
\* outdated, never resolving it to an existing record, and the merged
\* catalog holds the entry at the current processing version.
C4_OutdatedEntryReprocessed ==
    variant = "upload" =>
        /\ pc = "process" =>
             \A i \in 1..Len(processedPhotos) : Outdated(i) => outcomes[i] = "created"
        /\ pc \in {"group", "save"} =>
             \A i \in 1..Len(photoFiles) :
                 Outdated(i) =>
                     /\ HasEntry(manifest.photos, basename(photoFiles[i]))
                     /\ EntryOf(manifest.photos, basename(photoFiles[i])).processingVersion
                           = PROCESSING_VERSION

\* C4 (the case): an upload run has processed again a file whose entry is
\* outdated and whose bytes still hash to the stored hash.
C4_Witness ==
    /\ variant = "upload" /\ pc = "group"
    /\ \E i \in 1..Len(photoFiles) :
         /\ Outdated(i)
         /\ outcomes[i] = "created"
         /\ EntryOf(Loaded, basename(photoFiles[i])).fileHash
               = Some(generateFileHash(tree[photoFiles[i]]))

\* Two group lists agree up to the identifiers and the place names.
SameGroups(gs, hs) ==
    /\ Len(gs) = Len(hs)
    /\ \A g \in 1..Len(gs) :
         /\ gs[g].photos = hs[g].photos
         /\ gs[g].count = hs[g].count
         /\ gs[g].lat = hs[g].lat
         /\ gs[g].lng = hs[g].lng

\* The running process repeats, on the tree it scanned, the completed run
\* of the same variant that wrote the manifest file.
Rerun ==
    /\ sameTree
    /\ file.state = "complete"
    /\ completed # <<>>
    /\ completed[Len(completed)] = variant

\* C5: a run repeated on an unchanged source tree creates no record, and
\* leaves the photos and, up to identifiers and place names, the groups as
\* the manifest file holds them.
C5_RerunIsIdempotent ==
    Rerun =>
        /\ pc \in {"process", "group", "save"} =>
             \A i \in 1..Len(outcomes) : outcomes[i] # "created"
        /\ pc \in {"group", "save"} => manifest.photos = file.content.photos
        /\ pc = "save" => SameGroups(manifest.groups, file.content.groups)

\* C5 (the case): a repeated run over a tree with files is about to save.
C5_Witness ==
    /\ Rerun /\ pc = "save"
    /\ Len(photoFiles) >= 2
    /\ manifest.groups # <<>>

\* The steps processPhoto takes on one file.
PerFileSteps == {"readFile", "extractGPSData", "optimizeImage", "uploadToCloudflare",
                 "copyFile"}

\* C6: no failure of a per-file step ends the run: whenever the loop is
\* over, every scanned file has a record, and the process never exits on
\* an error a per-file step raised.
C6_PerFileFailureNeverAborts ==
    /\ pc \in Stopped => lastError \notin PerFileSteps
    /\ Merged => Len(processedPhotos) = Len(photoFiles)

\* C6 (the case): a file failed inside the guarded section, the failure is
\* on its record, and the run has gone on to save.
C6_Witness ==
    /\ pc = "writing"
    /\ \E i \in 1..Len(processedPhotos) :
         /\ outcomes[i] = "created"
         /\ processedPhotos[i].error # Null
         /\ i < Len(photoFiles)

\* C7: the manifest file is never half-written: it is absent or holds a
\* complete manifest.
C7_FileNeverHalfWritten == file.state \in {"absent", "complete"}

\* C7 (the case): a process was killed while fs.writeFile was writing.
C7_Witness == pc = "killed" /\ file.state = "partial"

\* The i-th scanned file is an image that was processed without error
\* and whose EXIF data give a latitude and a longitude, zero included.
Geotagged(i) ==
    /\ ~isVideo(basename(photoFiles[i]))
    /\ ExifOf(tree[photoFiles[i]]).latitude # Null
    /\ ExifOf(tree[photoFiles[i]]).longitude # Null
    /\ processedPhotos[i].processed
    /\ processedPhotos[i].error = Null

MemberNames(group) == {group.photos[k].originalName : k \in 1..Len(group.photos)}

\* Three images at (0,0), (0,0.001) and (10,10), in this order.
ThreeItems ==
    /\ Len(photoFiles) = 3
    /\ \A i \in 1..3 : Geotagged(i)
    /\ tree[photoFiles[1]] = "o" /\ tree[photoFiles[2]] = "z" /\ tree[photoFiles[3]] = "x"

\* C8: items at (0,0), (0,0.001) and (10,10) are clustered into two groups,
\* the first two together and the third alone; an item whose latitude or
\* longitude is 0 is clustered like any other geotagged item.
C8_ZeroCoordinatesAreClustered ==
    pc = "save" =>
        /\ ThreeItems =>
             /\ Len(manifest.groups) = 2
             /\ MemberNames(manifest.groups[1])
                   = {basename(photoFiles[1]), basename(photoFiles[2])}
             /\ MemberNames(manifest.groups[2]) = {basename(photoFiles[3])}
        /\ \A i \in 1..Len(photoFiles) :
             Geotagged(i) =>
                 \E g \in 1..Len(manifest.groups) :
                     basename(photoFiles[i]) \in MemberNames(manifest.groups[g])

\* C8 (the case): groupPhotos has clustered the three items.
C8_Witness == pc = "save" /\ ThreeItems

\* C9: an entry that stays in the catalog under its originalName keeps its
\* id through every run, and no two entries of the catalog share an id.
C9_IdsAreStable ==
    Merged =>
        /\ pc # "writing" =>
             \A i \in 1..Len(Loaded), j \in 1..Len(manifest.photos) :
                 Loaded[i].originalName = manifest.photos[j].originalName
                     => Loaded[i].id = manifest.photos[j].id
        /\ \A i, j \in 1..Len(manifest.photos) :
             manifest.photos[i].id = manifest.photos[j].id => i = j

\* C9 (the case): a run has processed again a file whose entry stays in
\* the catalog.
C9_Witness ==
    /\ pc = "save"
    /\ \E i \in 1..Len(photoFiles) :
         /\ outcomes[i] = "created"
         /\ HasEntry(Loaded, basename(photoFiles[i]))
         /\ HasEntry(manifest.photos, basename(photoFiles[i]))

\* An item is eligible for clustering when it has coordinates, is processed
\* and carries no error.
Eligible(p) == p.lat # Null /\ p.lng # Null /\ p.processed /\ p.error = Null

GroupsOf(groups, p) ==
    {g \in 1..Len(groups) : \E k \in 1..Len(groups[g].photos) : groups[g].photos[k] = p}

\* C10: the groups partition the eligible items of the catalog: an eligible
\* item is in exactly one group and once in it, an ineligible item is in
\* none, every group has a member, and count is the number of members.
C10_GroupsPartitionEligible ==
    pc = "save" =>
        /\ \A i \in 1..Len(manifest.photos) :
             LET p == manifest.photos[i]
             IN  IF Eligible(p)
                 THEN /\ Cardinality(GroupsOf(manifest.groups, p)) = 1
                      /\ \A g \in GroupsOf(manifest.groups, p) :
                           Cardinality({k \in 1..Len(manifest.groups[g].photos) :
                                           manifest.groups[g].photos[k] = p}) = 1
                 ELSE GroupsOf(manifest.groups, p) = {}
        /\ \A g \in 1..Len(manifest.groups) :
             /\ Len(manifest.groups[g].photos) >= 1
             /\ manifest.groups[g].count = Len(manifest.groups[g].photos)
             /\ \A k \in 1..Len(manifest.groups[g].photos) :
                  \E i \in 1..Len(manifest.photos) :
                     manifest.photos[i] = manifest.groups[g].photos[k]

\* C10 (the case): three eligible items were clustered into a group of two
\* and a group of one, the last item lying within the radius of both seeds.
C10_Witness ==
    /\ pc = "save"
    /\ Len(manifest.photos) = 3
    /\ Len(manifest.groups) = 2
    /\ manifest.groups[1].count = 2
    /\ manifest.groups[2].count = 1
    /\ calculateDistance(manifest.groups[2].photos[1].lat[1], manifest.groups[2].photos[1].lng[1],
                         manifest.photos[3].lat[1], manifest.photos[3].lng[1])
          <= radiusMilliMiles

\* The eligible items of the catalog in catalog order (the filtered list).
Filtered == SelectSeq(manifest.photos, Eligible)

\* The position of an item in the filtered list.
PositionOf(p) == CHOOSE i \in 1..Len(Filtered) : Filtered[i] = p

\* The seed of a group: the position of its earliest member.
SeedOf(group) ==
    CHOOSE s \in {PositionOf(group.photos[k]) : k \in 1..Len(group.photos)} :
        \A k \in 1..Len(group.photos) : s <= PositionOf(group.photos[k])

Near(i, j) ==
    calculateDistance(Filtered[i].lat[1], Filtered[i].lng[1],
                      Filtered[j].lat[1], Filtered[j].lng[1]) <= radiusMilliMiles

\* C11: clustering is greedy and seed-based: every member of a group is its
\* seed or lies within the radius of its seed, no seed of an earlier group
\* lies within the radius of a member (the seed included), and the groups
\* are in the order of their seeds in the filtered list.
C11_GreedySeedClustering ==
    pc = "save" =>
        /\ \A g \in 1..Len(manifest.groups) :
             \A k \in 1..Len(manifest.groups[g].photos) :
                 LET j == PositionOf(manifest.groups[g].photos[k])
                     s == SeedOf(manifest.groups[g])
                 IN  /\ j = s \/ Near(s, j)
                     /\ \A h \in 1..Len(manifest.groups) :
                          SeedOf(manifest.groups[h]) < s => ~Near(SeedOf(manifest.groups[h]), j)
        /\ \A g, h \in 1..Len(manifest.groups) :
             g < h => SeedOf(manifest.groups[g]) < SeedOf(manifest.groups[h])

\* C11 (the case): the third item lies within the radius of the second,
\* a member of the first group, but not of the first group's seed, and is
\* the seed of a second group.
C11_Witness ==
    /\ pc = "save"
    /\ Len(Filtered) = 3
    /\ Len(manifest.groups) = 2
    /\ Near(1, 2) /\ Near(2, 3) /\ ~Near(1, 3)
    /\ manifest.groups[1].count = 2
    /\ manifest.groups[2].photos = <<Filtered[3]>>

\* Member k of a group is in its place before member l.
InTimestampOrder(group, k, l) ==
    LET a == group.photos[k]
        b == group.photos[l]
    IN  /\ a.timestamp = Null => b.timestamp = Null
        /\ (a.timestamp # Null /\ b.timestamp # Null) => timeOf(a.timestamp) <= timeOf(b.timestamp)
        /\ (a.timestamp = Null <=> b.timestamp = Null)
           /\ (a.timestamp # Null => timeOf(a.timestamp) = timeOf(b.timestamp))
           => PositionOf(a) < PositionOf(b)

\* C12: in every group either variant computes, the members are in
\* ascending order of timestamp, those without a timestamp last, and
\* members with equal or missing timestamps in their filtered order.
C12_MembersOrderedByTimestamp ==
    pc = "save" =>
        \A g \in 1..Len(manifest.groups) :
            \A k, l \in 1..Len(manifest.groups[g].photos) :
                k < l => InTimestampOrder(manifest.groups[g], k, l)

\* C12 (the case): a group whose seed has a later timestamp than another
\* of its members.
C12_Witness ==
    /\ pc = "save"
    /\ \E g \in 1..Len(manifest.groups) :
         \E k \in 1..Len(manifest.groups[g].photos) :
            /\ manifest.groups[g].photos[k].timestamp # Null
            /\ Filtered[SeedOf(manifest.groups[g])].timestamp # Null
            /\ timeOf(manifest.groups[g].photos[k].timestamp)
                  < timeOf(Filtered[SeedOf(manifest.groups[g])].timestamp)

\* A response that gives a place: the request succeeded with a JSON object
\* that has a display name.
Successful(r) ==
    /\ r.net = "ok" /\ r.ok /\ r.jsonType
    /\ r.body.kind = "data" /\ r.body.display_name # <<>>

\* The name the preference order gives; city stands for the city or,
\* failing it, the town, neighbourhood for the neighbourhood or, failing
\* it, the suburb.
PreferredName(data) ==
    LET neighborhood == OrElse(data.address.neighbourhood, data.address.suburb)
        city == OrElse(data.address.city, data.address.town)
    IN  IF neighborhood # "" /\ city # "" THEN <<neighborhood, city>>
        ELSE IF data.address.road # "" /\ city # "" THEN <<data.address.road, city>>
        ELSE IF city # "" /\ data.address.state # "" THEN <<city, data.address.state>>
        ELSE IF city # "" THEN <<city>>
        ELSE IF Len(data.display_name) >= 2 THEN SubSeq(data.display_name, 1, 2)
        ELSE data.display_name

\* C13: for every successful response the group is named by the first
\* applicable rule of the preference order, whatever the number of
\* segments of display_name.
C13_NamePreferenceOrder ==
    pc = "save" =>
        \A k \in 1..Len(manifest.groups) :
            Successful(lookups.responses[k]) =>
                manifest.groups[k].locationName
                    = PlaceName(PreferredName(lookups.responses[k].body))

\* C13 (the case): a successful response with a city and a state, no
\* neighbourhood, suburb or road, named "city, state".
C13_Witness ==
    /\ pc = "save"
    /\ Len(manifest.groups) = 1
    /\ Successful(lookups.responses[1])
    /\ lookups.responses[1].body.address
          = [NoAddress EXCEPT !.city = "C", !.state = "ST"]
    /\ manifest.groups[1].locationName = PlaceName(<<"C", "ST">>)

\* A response that gives no place: a network error, a non-success status,
\* a body that is not JSON, or no display name.
Failed(r) ==
    \/ r.net = "error"
    \/ ~r.ok
    \/ r.body.kind # "data"
    \/ r.body.display_name = <<>>

\* C14: whenever the lookup fails, the group is created all the same and is
\* named by the coordinate string of its centre, 4 decimal places each.
C14_FailedLookupFallsBack ==
    pc = "save" =>
        /\ Len(manifest.groups) = Len(lookups.responses)
        /\ \A k \in 1..Len(manifest.groups) :
             Failed(lookups.responses[k]) =>
                 manifest.groups[k].locationName
                     = [kind |-> "coords", parts |-> <<>>,
                        lat |-> (manifest.groups[k].lat + 50) \div 100,
                        lng |-> (manifest.groups[k].lng + 50) \div 100]

\* C14 (the case): the request failed on the network and the group was
\* created with the coordinate string.
C14_Witness ==
    /\ pc = "save"
    /\ Len(manifest.groups) = 1
    /\ lookups.responses[1].net = "error"
    /\ manifest.groups[1].locationName.kind = "coords"

\* The lookups issued so far by the running clustering.
Issued == Len(lookups.responses) + lookups.inFlight

\* C15: one lookup per group, and strictly sequential: never two requests
\* in flight, never more lookups than groups and as many when clustering
\* is over; a request is issued only when its timer was running and no
\* request is in flight, and a timer is started only when no timer runs
\* and no request is in flight.
C15_OneSequentialLookupPerGroup ==
    /\ [](/\ lookups.inFlight <= 1
          /\ pc = "group" => Issued <= GroupCount(manifest.photos)
          /\ pc = "save" => Issued = Len(manifest.groups) /\ lookups.inFlight = 0)
    /\ [][/\ lookups'.inFlight > lookups.inFlight
              => lookups.phase = "delay" /\ lookups.inFlight = 0
          /\ (lookups'.phase = "delay" /\ lookups.phase # "delay")
              => lookups.phase = "idle" /\ lookups.inFlight = 0]_vars

\* C15 (the case): three items were clustered into two groups with two
\* lookups, the second answered after the first.
C15_Witness ==
    /\ pc = "save"
    /\ Len(Filtered) = 3
    /\ Len(manifest.groups) = 2
    /\ Len(lookups.responses) = 2
    /\ lookups.responses[1] # lookups.responses[2]

\* The run is at a step before saveManifest writes.
BeforeWrite == pc \in {"scan", "process", "group", "save"}

\* C16: the manifest file changes only in the save step, which begins only
\* when every scanned file has a record and clustering is over; a process
\* that ends before the write ends with a non-zero status and leaves the
\* file as it was.
C16_FileWrittenOnlyBySave ==
    /\ [](pc = "save" =>
            /\ Len(processedPhotos) = Len(photoFiles)
            /\ lookups.phase = "idle"
            /\ Len(lookups.responses) = Len(manifest.groups))
    /\ [][/\ file' # file => pc \in {"save", "writing"} /\ pc' \in {"writing", "exit0"}
          /\ (BeforeWrite /\ pc' \in Stopped) => pc' \in {"exit1", "killed"} /\ file' = file]_vars

\* C16 (the case): a catalog was on disk and a later run stopped on an
\* unreadable source tree, the catalog still complete.
C16_Witness ==
    /\ pc = "exit1"
    /\ lastError = "readdir"
    /\ file.state = "complete"
    /\ file.content.photos # <<>>

\* The i-th scanned file failed inside the guarded section of processPhoto.
FailedInGuardedSection(i) ==
    /\ outcomes[i] = "created"
    /\ processedPhotos[i].error # Null

\* C17: after the merge every file that failed inside the guarded section
\* has, under its name, an entry with processed = false and an error; and
\* a record processPhoto created is processed exactly when it has no error.
C17_FailedItemStaysInCatalog ==
    /\ Merged =>
         \A i \in 1..Len(photoFiles) :
             FailedInGuardedSection(i) =>
                 /\ HasEntry(manifest.photos, basename(photoFiles[i]))
                 /\ ~EntryOf(manifest.photos, basename(photoFiles[i])).processed
                 /\ EntryOf(manifest.photos, basename(photoFiles[i])).error # Null
    /\ \A i \in 1..Len(processedPhotos) :
         outcomes[i] = "created" =>
             (processedPhotos[i].processed <=> processedPhotos[i].error = Null)

\* C17 (the case): a file failed in the guarded section and the run has
\* merged its record.
C17_Witness ==
    /\ pc = "save"
    /\ \E i \in 1..Len(photoFiles) : FailedInGuardedSection(i)

UniqueNames(photos) ==
    \A i, j \in 1..Len(photos) : photos[i].originalName = photos[j].originalName => i = j

\* C18: no two entries of the catalog, in memory or on disk, ever have the
\* same originalName.
C18_OriginalNameIsUnique ==
    /\ UniqueNames(manifest.photos)
    /\ UniqueNames(file.content.photos)

\* C18 (the case): a scan found two files of the same base name, both were
\* processed, and the catalog was merged.
C18_Witness ==
    /\ pc = "save"
    /\ manifest.photos # <<>>
    /\ \E i, j \in 1..Len(photoFiles) :
         /\ i < j
         /\ basename(photoFiles[i]) = basename(photoFiles[j])
         /\ outcomes[i] = "created" /\ outcomes[j] = "created"

\* The last of the processed records that carries the name.
LastProcessed(processed, name) ==
    processed[CHOOSE i \in 1..Len(processed) :
                 /\ processed[i].originalName = name
                 /\ \A j \in (i + 1)..Len(processed) : processed[j].originalName # name]

\* post is base with every entry whose name a processed record carries
\* replaced in its place, the other entries as they were, and the records
\* of new names appended in the order in which the names first occur.
MergeFrame(base, processed, post) ==
    /\ Len(post) >= Len(base)
    /\ \A i \in 1..Len(base) :
         IF base[i].originalName \in Names(processed)
         THEN post[i] = LastProcessed(processed, base[i].originalName)
         ELSE post[i] = base[i]
    /\ \A i \in (Len(base) + 1)..Len(post) :
         /\ post[i].originalName \in Names(processed) \ Names(base)
         /\ post[i] = LastProcessed(processed, post[i].originalName)
    /\ Names(processed) \subseteq Names(post)
    /\ UniqueNames(post)
    /\ \A i, j \in (Len(base) + 1)..Len(post) :
         i < j => \E k \in 1..Len(processed) :
                     /\ processed[k].originalName = post[i].originalName
                     /\ \A l \in 1..k : processed[l].originalName # post[j].originalName

\* C19: the merge step replaces in place or appends, and leaves every other
\* entry of the (pruned) catalog unchanged and in its place.
C19_MergeReplacesOrAppends ==
    [][(pc = "process" /\ pc' = "group") =>
          MergeFrame(IF variant = "upload"
                     THEN pruneOrphans(manifest.photos, FileNames(photoFiles))
                     ELSE manifest.photos,
                     processedPhotos, manifest'.photos)]_vars

\* C19 (the case): the merge replaced the loaded entry in its place with
\* the record of the file processed again and appended a new file's record.
C19_Witness ==
    /\ pc = "group"
    /\ Len(Loaded) = 1
    /\ Len(manifest.photos) = 2
    /\ outcomes = <<"created", "created">>
    /\ manifest.photos[1].originalName = Loaded[1].originalName
    /\ manifest.photos[1] # Loaded[1]
    /\ manifest.photos = processedPhotos

\* C20: what loadExistingManifest reads from the file saveManifest has
\* written has the photos, the groups and the version of the manifest in
\* memory that was saved.
C20_SaveLoadRoundTrip ==
    [][(pc = "writing" /\ pc' = "exit0") =>
          /\ JSONparse(file'.content).photos = manifest.photos
          /\ JSONparse(file'.content).groups = manifest.groups
          /\ JSONparse(file'.content).version = manifest.version]_vars

\* C20 (the case): a manifest with a timestamped photo and a group has been
\* saved.
C20_Witness ==
    /\ pc = "exit0"
    /\ file.state = "complete"
    /\ file.content.groups # <<>>
    /\ \E i \in 1..Len(file.content.photos) : file.content.photos[i].timestamp # Null

\* The version the running process loaded: that of the file, or 1 where the
\* file is absent or does not parse.
LoadedVersion == IF file.state = "complete" THEN file.content.version ELSE 1

Last(s) == s[Len(s)]

\* C21: saveManifest sets the version to the loaded version plus one, the
\* version a completed run leaves in the file is that number, and it is
\* greater than the version the completed run before left there.
C21_VersionStrictlyIncreases ==
    /\ [][(pc = "save" /\ pc' = "writing") =>
              /\ IsNumber(manifest'.version)
              /\ manifest'.version = LoadedVersion + 1]_vars
    /\ [][(pc = "writing" /\ pc' = "exit0") =>
              /\ file'.content.version = manifest.version
              /\ savedVersions # <<>> => file'.content.version > Last(savedVersions)]_vars

\* C21 (the case): three runs have completed on the same file.
C21_Witness ==
    /\ pc = "exit0"
    /\ file.state = "complete"
    /\ Len(savedVersions) = 3

\* C22: the manifest a local run is about to save holds no entry, and no
\* group member, named after a file that run's scan did not find.
C22_LocalRunRemovesOrphans ==
    (variant = "local" /\ pc \in {"save", "writing"}) =>
        /\ \A i \in 1..Len(manifest.photos) :
             manifest.photos[i].originalName \in FileNames(photoFiles)
        /\ \A m \in GroupMembers(manifest.groups) :
             m.originalName \in FileNames(photoFiles)

\* C22 (the case): a local run that loaded an entry whose file its scan did
\* not find has merged and clustered.
C22_Witness ==
    /\ variant = "local"
    /\ pc = "save"
    /\ \E i \in 1..Len(Loaded) : Loaded[i].originalName \notin FileNames(photoFiles)

AtCurrentVersion(p) == p.processingVersion >= PROCESSING_VERSION

====
